---- MODULE Spec2Model ----
(***************************************************************************)
(* LiquidCrystal_PCF8574: an HD44780 character LCD driven in 4-bit mode    *)
(* through a PCF8574 I2C port expander.  The model keeps the driver's      *)
(* member variables and the trace of calls the last public operation made  *)
(* on the Wire bus object and on delayMicroseconds.                        *)
(***************************************************************************)
EXTENDS Integers, Sequences, FiniteSets, TLC

VARIABLES
    pins,             \* the pin positions the constructor handed to init()
    _rs_mask, _rw_mask, _enable_mask, _backlight_mask, _data_mask,
    _backlight, _entrymode, _displaycontrol, _lines,
    BUFFER_LENGTH,    \* the Wire library's frame bound (a build-time macro)
    busFails,         \* the expander does not acknowledge: every transmission fails
    wire,             \* bus and delay calls of the last public operation
    txOpen,           \* a Wire transmission is begun and not yet ended
    ret,              \* return value of the last public operation (0: void)
    lastOp            \* the last public operation, its arguments, the flags before it

vars == <<pins, _rs_mask, _rw_mask, _enable_mask, _backlight_mask, _data_mask,
          _backlight, _entrymode, _displaycontrol, _lines, BUFFER_LENGTH,
          busFails, wire, txOpen, ret, lastOp>>

masks == <<pins, _rs_mask, _rw_mask, _enable_mask, _backlight_mask, _data_mask,
           BUFFER_LENGTH, busFails>>

-----------------------------------------------------------------------------
(* uint8_t arithmetic *)

Bit(x, i) == (x \div (2^i)) % 2

\* a & b on operands of up to 9 bits (an int holding the sum of two uint8_t)
BitAnd(a, b) ==
    IF a = 0 \/ b = 0 THEN 0
    ELSE  (a % 2) * (b % 2)
        + ((a \div 2) % 2)   * ((b \div 2) % 2)   * 2
        + ((a \div 4) % 2)   * ((b \div 4) % 2)   * 4
        + ((a \div 8) % 2)   * ((b \div 8) % 2)   * 8
        + ((a \div 16) % 2)  * ((b \div 16) % 2)  * 16
        + ((a \div 32) % 2)  * ((b \div 32) % 2)  * 32
        + ((a \div 64) % 2)  * ((b \div 64) % 2)  * 64
        + ((a \div 128) % 2) * ((b \div 128) % 2) * 128
        + ((a \div 256) % 2) * ((b \div 256) % 2) * 256

\* a | b
BitOr(a, b) == a + b - BitAnd(a, b)

\* the two operators on uint8_t operands, tabulated
AndTable == [a \in 0..255 |-> [b \in 0..255 |-> BitAnd(a, b)]]
OrTable == [a \in 0..255 |-> [b \in 0..255 |-> BitOr(a, b)]]

Or8(a, b) == OrTable[a][b]
And8(a, b) == AndTable[a][b]

\* conversion of an int to uint8_t
U8(x) == x % 256

\* uint8_t(0x01 << p) for a uint8_t p, promoted to int: the possible results.
\* Positions 8..15 shift the bit out of the low byte; a shift by the width of
\* int or more (16 on AVR) is undefined.
ShiftLeft1(p) ==
    IF p <= 7 THEN {2^p}
    ELSE IF p <= 15 THEN {0}
    ELSE 0..255

-----------------------------------------------------------------------------
(* calls on the bus object and the delay primitive *)

WireBegin == <<"Wire.begin", 0>>
beginTransmission == <<"beginTransmission", 0>>
\* Wire.endTransmission() and the status it returns (0: success, 2: address
\* not acknowledged), which no caller in the driver reads
endTransmission == <<"endTransmission", IF busFails THEN 2 ELSE 0>>
WireWrite(b) == <<"write", b>>
delayMicroseconds(us) == <<"delayMicroseconds", us>>

\* whether a transmission is open after the calls evs, given that one was
\* `open` before them: the last begin or end among them decides
OpenAfter(open, evs) ==
    LET n     == Len(evs)
        marks == { j \in 1..n :
                     evs[j][1] \in {"beginTransmission", "endTransmission"} }
        last  == CHOOSE j \in marks : \A k \in marks : k <= j
    IN IF n > 0 /\ evs[n][1] = "endTransmission" THEN FALSE
       ELSE IF marks = {} THEN open
       ELSE evs[last][1] = "beginTransmission"

-----------------------------------------------------------------------------
(* low level functions *)

\* DataBits with the line of bit 3 taken for bit 2 as well
DataBitsMutBit2(nibble) ==
    LET o0 == IF Bit(nibble, 0) = 1 THEN _data_mask[1] ELSE 0
        o1 == IF Bit(nibble, 1) = 1 THEN Or8(o0, _data_mask[2]) ELSE o0
        o2 == IF Bit(nibble, 2) = 1 THEN Or8(o1, _data_mask[4]) ELSE o1
        o3 == IF Bit(nibble, 3) = 1 THEN Or8(o2, _data_mask[4]) ELSE o2
    IN o3

\* the data lines carrying the low four bits of nibble
DataBits(nibble) ==
    LET o0 == IF Bit(nibble, 0) = 1 THEN _data_mask[1] ELSE 0
        o1 == IF Bit(nibble, 1) = 1 THEN Or8(o0, _data_mask[2]) ELSE o0
        o2 == IF Bit(nibble, 2) = 1 THEN Or8(o1, _data_mask[3]) ELSE o1
        o3 == IF Bit(nibble, 3) = 1 THEN Or8(o2, _data_mask[4]) ELSE o2
    IN o3

\* _send without the enable pulse of the low nibble
_sendMutNoLowPulse(value, isData) ==
    LET o0   == IF _backlight > 0 THEN _backlight_mask ELSE 0
        out1 == IF isData THEN Or8(o0, _rs_mask) ELSE o0
        hi   == Or8(out1, DataBits(value \div 16))
        lo   == Or8(out1, DataBits(value % 16))
    IN << beginTransmission,
          WireWrite(Or8(hi, _enable_mask)), WireWrite(hi),
          WireWrite(lo), WireWrite(lo),
          endTransmission >>

\* void _send(uint8_t value, bool isData)
_send(value, isData) ==
    LET o0   == IF _backlight > 0 THEN _backlight_mask ELSE 0
        out1 == IF isData THEN Or8(o0, _rs_mask) ELSE o0
        hi   == Or8(out1, DataBits(value \div 16))
        lo   == Or8(out1, DataBits(value % 16))
    IN << beginTransmission,
          WireWrite(Or8(hi, _enable_mask)), WireWrite(hi),
          WireWrite(Or8(lo, _enable_mask)), WireWrite(lo),
          endTransmission >>

\* _sendNibble that raises enable and never lowers it
_sendNibbleMutNoFall(value, isData) ==
    LET o0  == IF isData THEN _rs_mask ELSE 0
        o1  == IF _backlight > 0 THEN Or8(o0, _backlight_mask) ELSE o0
        out == Or8(o1, DataBits(value % 16))
    IN << beginTransmission, WireWrite(Or8(out, _enable_mask)), endTransmission >>

\* void _sendNibble(uint8_t value, bool isData)
_sendNibble(value, isData) ==
    LET o0  == IF isData THEN _rs_mask ELSE 0
        o1  == IF _backlight > 0 THEN Or8(o0, _backlight_mask) ELSE o0
        out == Or8(o1, DataBits(value % 16))
    IN << beginTransmission,
          WireWrite(Or8(out, _enable_mask)), WireWrite(out),
          endTransmission >>

\* _write2Wire that raises the read/write line as well
_write2WireMutRw(byte) ==
    LET o0  == Or8(_rs_mask, _rw_mask)
        out == IF _backlight > 0 THEN Or8(o0, _backlight_mask) ELSE o0
    IN << beginTransmission, WireWrite(out), endTransmission >>

\* void _write2Wire(uint8_t byte)
_write2Wire(byte) ==
    LET o0  == _rs_mask
        out == IF _backlight > 0 THEN Or8(o0, _backlight_mask) ELSE o0
    IN << beginTransmission, WireWrite(out), endTransmission >>

-----------------------------------------------------------------------------
(* construction *)

PinArgs(rs, rw, enable, d4, d5, d6, d7, backlight) ==
    [rs |-> rs, rw |-> rw, enable |-> enable,
     d4 |-> d4, d5 |-> d5, d6 |-> d6, d7 |-> d7, backlight |-> backlight]

\* LiquidCrystal_PCF8574(i2cAddr) and (i2cAddr, LiquidCrystal_PCF8574_Default)
CtorDefault == PinArgs(0, 1, 2, 4, 5, 6, 7, 3)
\* LiquidCrystal_PCF8574(i2cAddr, LiquidCrystal_PCF8574_JOY_IT)
CtorJoyIt == PinArgs(4, 5, 7, 0, 1, 2, 3, 255)
\* LiquidCrystal_PCF8574(i2cAddr, rs, enable, d4, d5, d6, d7, backlight)
CtorNoRw(rs, enable, d4, d5, d6, d7, backlight) ==
    PinArgs(rs, 255, enable, d4, d5, d6, d7, backlight)

\* void init(i2cAddr, rs, rw, enable, d4, d5, d6, d7, backlight)
init(a) ==
    /\ pins = a
    /\ _backlight = 0
    /\ _entrymode = 2
    /\ _displaycontrol = 4
    /\ _rs_mask \in ShiftLeft1(a.rs)
    /\ _rw_mask \in (IF a.rw # 255 THEN ShiftLeft1(a.rw) ELSE {0})
    /\ _enable_mask \in ShiftLeft1(a.enable)
    /\ _data_mask \in { <<m0, m1, m2, m3>> :
                          m0 \in ShiftLeft1(a.d4), m1 \in ShiftLeft1(a.d5),
                          m2 \in ShiftLeft1(a.d6), m3 \in ShiftLeft1(a.d7) }
    /\ _backlight_mask \in (IF a.backlight # 255 THEN ShiftLeft1(a.backlight) ELSE {0})
    /\ _lines = -1      \* not set by init(); only begin() writes it, nothing reads it
    /\ wire = << >>
    /\ txOpen = FALSE
    /\ ret = 0
    /\ lastOp = [name |-> "init", args |-> << >>, dc |-> 4, em |-> 2, bl |-> 0]

\* pin assignments the model constructs drivers with
ValidCtorArgs ==
    { CtorDefault, CtorJoyIt,
      CtorNoRw(7, 6, 3, 2, 1, 0, 5),
      CtorNoRw(1, 0, 2, 3, 4, 5, 255),
      PinArgs(6, 7, 5, 0, 2, 4, 1, 3) }

\* assignments the constructors accept although two signals share a bit or a
\* position lies outside the expander's eight outputs
InvalidCtorArgs ==
    { CtorNoRw(2, 2, 4, 5, 6, 7, 3),
      CtorNoRw(0, 2, 4, 5, 6, 7, 0),
      CtorNoRw(0, 2, 4, 5, 6, 8, 3),
      CtorNoRw(0, 2, 4, 5, 6, 7, 200),
      PinArgs(0, 1, 2, 4, 4, 6, 7, 9) }

CtorArgs == ValidCtorArgs \cup InvalidCtorArgs

-----------------------------------------------------------------------------
(* public operations *)

\* bookkeeping shared by every public operation
Did(name, args) ==
    /\ lastOp' = [name |-> name, args |-> args,
                  dc |-> _displaycontrol, em |-> _entrymode, bl |-> _backlight]
    /\ txOpen' = OpenAfter(txOpen, wire')
    /\ UNCHANGED masks

\* command that stores the flags of a display-control or entry-mode byte
commandMutTracksFlags(values) ==
    \E value \in values :
        /\ wire' = _send(value, FALSE)
        /\ ret' = 0
        /\ _displaycontrol' = (IF value \in 8..15 THEN value % 8 ELSE _displaycontrol)
        /\ _entrymode' = (IF value \in 4..7 THEN value % 4 ELSE _entrymode)
        /\ UNCHANGED <<_backlight, _lines>>
        /\ Did("command", <<value>>)

\* inline void command(uint8_t value)
command(values) ==
    \E value \in values :
        /\ wire' = _send(value, FALSE)
        /\ ret' = 0
        /\ UNCHANGED <<_backlight, _entrymode, _displaycontrol, _lines>>
        /\ Did("command", <<value>>)

flagsKept == UNCHANGED <<_backlight, _entrymode, _displaycontrol, _lines>>

\* virtual size_t write(uint8_t ch)
write(values) ==
    \E ch \in values :
        /\ wire' = _send(ch, TRUE)
        /\ ret' = 1
        /\ flagsKept
        /\ Did("write", <<ch>>)

\* void clear()
clear ==
    /\ wire' = _send(1, FALSE) \o << delayMicroseconds(1600) >>
    /\ ret' = 0
    /\ flagsKept
    /\ Did("clear", << >>)

\* void home()
home ==
    /\ wire' = _send(2, FALSE) \o << delayMicroseconds(1600) >>
    /\ ret' = 0
    /\ flagsKept
    /\ Did("home", << >>)

\* the offsets with rows 2 and 3 at 0x10 and 0x50
row_offsetsMut16 == <<0, 64, 16, 80>>

\* uint8_t row_offsets[] = {0x00, 0x40, 0x14, 0x54}
row_offsets == <<0, 64, 20, 84>>

\* the value read as row_offsets[row]: an index past the four entries reads
\* whatever byte lies behind the array
RowOffset(row) == IF row < 4 THEN {row_offsets[row + 1]} ELSE 0..255

\* void setCursor(uint8_t col, uint8_t row)
setCursor(cols, rows) ==
    \E col \in cols, row \in rows : \E offset \in RowOffset(row) :
        /\ wire' = _send(U8(BitOr(128, offset + col)), FALSE)
        /\ ret' = 0
        /\ flagsKept
        /\ Did("setCursor", <<col, row>>)

\* void noDisplay()
noDisplay ==
    /\ _displaycontrol' = And8(_displaycontrol, 255 - 4)      \* &= ~0x04
    /\ wire' = _send(Or8(8, _displaycontrol'), FALSE)
    /\ ret' = 0
    /\ UNCHANGED <<_backlight, _entrymode, _lines>>
    /\ Did("noDisplay", << >>)

\* void display()
display ==
    /\ _displaycontrol' = Or8(_displaycontrol, 4)      \* |= 0x04
    /\ wire' = _send(Or8(8, _displaycontrol'), FALSE)
    /\ ret' = 0
    /\ UNCHANGED <<_backlight, _entrymode, _lines>>
    /\ Did("display", << >>)

\* void cursor()
cursor ==
    /\ _displaycontrol' = Or8(_displaycontrol, 2)      \* |= 0x02
    /\ wire' = _send(Or8(8, _displaycontrol'), FALSE)
    /\ ret' = 0
    /\ UNCHANGED <<_backlight, _entrymode, _lines>>
    /\ Did("cursor", << >>)

\* void noCursor()
noCursor ==
    /\ _displaycontrol' = And8(_displaycontrol, 255 - 2)      \* &= ~0x02
    /\ wire' = _send(Or8(8, _displaycontrol'), FALSE)
    /\ ret' = 0
    /\ UNCHANGED <<_backlight, _entrymode, _lines>>
    /\ Did("noCursor", << >>)

\* void blink()
blink ==
    /\ _displaycontrol' = Or8(_displaycontrol, 1)      \* |= 0x01
    /\ wire' = _send(Or8(8, _displaycontrol'), FALSE)
    /\ ret' = 0
    /\ UNCHANGED <<_backlight, _entrymode, _lines>>
    /\ Did("blink", << >>)

\* noBlink that sends the instruction before it clears the flag
noBlinkMutSendFirst ==
    /\ _displaycontrol' = And8(_displaycontrol, 255 - 1)
    /\ wire' = _send(Or8(8, _displaycontrol), FALSE)
    /\ ret' = 0
    /\ UNCHANGED <<_backlight, _entrymode, _lines>>
    /\ Did("noBlink", << >>)

\* void noBlink()
noBlink ==
    /\ _displaycontrol' = And8(_displaycontrol, 255 - 1)      \* &= ~0x01
    /\ wire' = _send(Or8(8, _displaycontrol'), FALSE)
    /\ ret' = 0
    /\ UNCHANGED <<_backlight, _entrymode, _lines>>
    /\ Did("noBlink", << >>)

\* void scrollDisplayLeft()
scrollDisplayLeft ==
    /\ wire' = _send(24, FALSE)
    /\ ret' = 0
    /\ flagsKept
    /\ Did("scrollDisplayLeft", << >>)

\* void scrollDisplayRight()
scrollDisplayRight ==
    /\ wire' = _send(28, FALSE)
    /\ ret' = 0
    /\ flagsKept
    /\ Did("scrollDisplayRight", << >>)

\* void leftToRight()
leftToRight ==
    /\ _entrymode' = Or8(_entrymode, 2)      \* |= 0x02
    /\ wire' = _send(Or8(4, _entrymode'), FALSE)
    /\ ret' = 0
    /\ UNCHANGED <<_backlight, _displaycontrol, _lines>>
    /\ Did("leftToRight", << >>)

\* void rightToLeft()
rightToLeft ==
    /\ _entrymode' = And8(_entrymode, 255 - 2)      \* &= ~0x02
    /\ wire' = _send(Or8(4, _entrymode'), FALSE)
    /\ ret' = 0
    /\ UNCHANGED <<_backlight, _displaycontrol, _lines>>
    /\ Did("rightToLeft", << >>)

\* autoscroll that flips the shift flag instead of setting it
autoscrollMutToggle ==
    /\ _entrymode' = (IF Bit(_entrymode, 0) = 1 THEN _entrymode - 1 ELSE _entrymode + 1)
    /\ wire' = _send(Or8(4, _entrymode'), FALSE)
    /\ ret' = 0
    /\ UNCHANGED <<_backlight, _displaycontrol, _lines>>
    /\ Did("autoscroll", << >>)

\* void autoscroll()
autoscroll ==
    /\ _entrymode' = Or8(_entrymode, 1)      \* |= 0x01
    /\ wire' = _send(Or8(4, _entrymode'), FALSE)
    /\ ret' = 0
    /\ UNCHANGED <<_backlight, _displaycontrol, _lines>>
    /\ Did("autoscroll", << >>)

\* void noAutoscroll()
noAutoscroll ==
    /\ _entrymode' = And8(_entrymode, 255 - 1)      \* &= ~0x01
    /\ wire' = _send(Or8(4, _entrymode'), FALSE)
    /\ ret' = 0
    /\ UNCHANGED <<_backlight, _displaycontrol, _lines>>
    /\ Did("noAutoscroll", << >>)

\* setBacklight that latches the expander before it stores the level
setBacklightMutStale(levels) ==
    \E brightness \in levels :
        /\ _backlight' = brightness
        /\ wire' = _write2Wire(0)
        /\ ret' = 0
        /\ UNCHANGED <<_entrymode, _displaycontrol, _lines>>
        /\ Did("setBacklight", <<brightness>>)

\* void setBacklight(uint8_t brightness)
setBacklight(levels) ==
    \E brightness \in levels :
        /\ _backlight' = brightness
        /\ UNCHANGED masks
        /\ wire' = _write2Wire(0)'        \* sent with the level just stored
        /\ ret' = 0
        /\ UNCHANGED <<_entrymode, _displaycontrol, _lines>>
        /\ Did("setBacklight", <<brightness>>)

RECURSIVE WriteAll(_, _)
\* for (i = k; i <= 8; i++) write(charmap[i])
WriteAll(charmap, k) ==
    IF k > Len(charmap) THEN << >>
    ELSE _send(charmap[k], TRUE) \o WriteAll(charmap, k + 1)

\* createChar without location &= 0x7
createCharMutNoMask(locations, charmaps) ==
    \E location \in locations, charmap \in charmaps :
        /\ wire' = _send(Or8(64, U8(location * 8)), FALSE) \o WriteAll(charmap, 1)
        /\ ret' = 0
        /\ flagsKept
        /\ Did("createChar", <<location, charmap>>)

\* void createChar(uint8_t location, byte charmap[]) and createCharPgm
createChar(locations, charmaps) ==
    \E location \in locations, charmap \in charmaps :
        /\ wire' = _send(Or8(64, U8(And8(location, 7) * 8)), FALSE)
                     \o WriteAll(charmap, 1)
        /\ ret' = 0
        /\ flagsKept
        /\ Did("createChar", <<location, charmap>>)

RECURSIVE writeLoop(_, _, _, _)
\* the while (size--) loop of write(buffer, size) from element i on, with the
\* uint8_t byte counter c, followed by the final flush
writeLoop(buffer, i, c, out1) ==
    IF i > Len(buffer)
    THEN (IF c # 0 THEN << endTransmission >> ELSE << >>)
    ELSE LET value == buffer[i]
             hi    == Or8(out1, DataBits(value \div 16))
             lo    == Or8(out1, DataBits(value % 16))
             c4    == U8(c + 4)
             full  == c4 >= BUFFER_LENGTH - 4
         IN (IF c = 0 THEN << beginTransmission >> ELSE << >>)
            \o << WireWrite(Or8(hi, _enable_mask)), WireWrite(hi),
                  WireWrite(Or8(lo, _enable_mask)), WireWrite(lo) >>
            \o (IF full THEN << endTransmission >> ELSE << >>)
            \o writeLoop(buffer, i + 1, IF full THEN 0 ELSE c4, out1)

\* write(buffer, size) that leaves register-select low
writeBufferMutNoRs(buffers) ==
    \E buffer \in buffers :
        LET out1 == IF _backlight > 0 THEN _backlight_mask ELSE 0
        IN  /\ wire' = writeLoop(buffer, 1, 0, out1)
            /\ ret' = Len(buffer)
            /\ flagsKept
            /\ Did("writeBuffer", <<buffer>>)

\* virtual size_t write(const uint8_t *buffer, size_t size)
writeBuffer(buffers) ==
    \E buffer \in buffers :
        LET o0   == _rs_mask
            out1 == IF _backlight > 0 THEN Or8(o0, _backlight_mask) ELSE o0
        IN  /\ wire' = writeLoop(buffer, 1, 0, out1)
            /\ ret' = Len(buffer)
            /\ flagsKept
            /\ Did("writeBuffer", <<buffer>>)

\* begin that keeps the flags it finds instead of resetting them
beginMutKeepFlags(colss, liness) ==
    \E cols \in colss, lines \in liness :
        LET functionFlags == IF lines > 1 THEN 8 ELSE 0 IN
        /\ _lines' = lines
        /\ _displaycontrol' = Or8(_displaycontrol, 4)
        /\ _entrymode' = Or8(_entrymode, 2)
        /\ wire' = << WireBegin >> \o _write2Wire(0)
                     \o << delayMicroseconds(50000) >>
                     \o _sendNibble(3, FALSE) \o << delayMicroseconds(4500) >>
                     \o _sendNibble(3, FALSE) \o << delayMicroseconds(200) >>
                     \o _sendNibble(3, FALSE) \o << delayMicroseconds(200) >>
                     \o _sendNibble(2, FALSE)
                     \o _send(Or8(32, functionFlags), FALSE)
                     \o _send(Or8(8, _displaycontrol'), FALSE)
                     \o _send(1, FALSE) \o << delayMicroseconds(1600) >>
                     \o _send(Or8(4, _entrymode'), FALSE)
        /\ ret' = 0
        /\ UNCHANGED _backlight
        /\ Did("begin", <<cols, lines>>)

\* begin that switches the backlight level back to 0 as well
beginMutBacklightOff(colss, liness) ==
    \E cols \in colss, lines \in liness :
        LET functionFlags == IF lines > 1 THEN 8 ELSE 0 IN
        /\ _lines' = lines
        /\ _displaycontrol' = Or8(4, 4)
        /\ _entrymode' = Or8(2, 2)
        /\ wire' = << WireBegin >> \o _write2Wire(0)
                     \o << delayMicroseconds(50000) >>
                     \o _sendNibble(3, FALSE) \o << delayMicroseconds(4500) >>
                     \o _sendNibble(3, FALSE) \o << delayMicroseconds(200) >>
                     \o _sendNibble(3, FALSE) \o << delayMicroseconds(200) >>
                     \o _sendNibble(2, FALSE)
                     \o _send(Or8(32, functionFlags), FALSE)
                     \o _send(Or8(8, _displaycontrol'), FALSE)
                     \o _send(1, FALSE) \o << delayMicroseconds(1600) >>
                     \o _send(Or8(4, _entrymode'), FALSE)
        /\ ret' = 0
        /\ _backlight' = 0
        /\ Did("begin", <<cols, lines>>)

\* void begin(uint8_t cols, uint8_t lines)
begin(colss, liness) ==
    \E cols \in colss, lines \in liness :
        LET functionFlags == IF lines > 1 THEN 8 ELSE 0 IN
        /\ _lines' = lines
        /\ _displaycontrol' = Or8(4, 4)            \* reset to 0x04, then display()
        /\ _entrymode' = Or8(2, 2)                 \* reset to 0x02, then leftToRight()
        /\ wire' = << WireBegin >> \o _write2Wire(0)
                     \o << delayMicroseconds(50000) >>
                     \o _sendNibble(3, FALSE) \o << delayMicroseconds(4500) >>
                     \o _sendNibble(3, FALSE) \o << delayMicroseconds(200) >>
                     \o _sendNibble(3, FALSE) \o << delayMicroseconds(200) >>
                     \o _sendNibble(2, FALSE)
                     \o _send(Or8(32, functionFlags), FALSE)
                     \o _send(Or8(8, _displaycontrol'), FALSE)
                     \o _send(1, FALSE) \o << delayMicroseconds(1600) >>
                     \o _send(Or8(4, _entrymode'), FALSE)
        /\ ret' = 0
        /\ UNCHANGED _backlight
        /\ Did("begin", <<cols, lines>>)

-----------------------------------------------------------------------------
(* inputs *)

MaxBufLen == 2
MaxLevel == 1

Bytes == 0..255
ByteSample == {1, 165}
\* a display-control byte (display, cursor, blink) and an entry-mode byte
\* (right-to-left, autoscroll), for command
FlagBytes == {15, 5}
BufBytes == {72, 105}
ShortBuffers == UNION { [1..n -> BufBytes] : n \in 0..MaxBufLen }
\* "", "H" and "Hi"
HiBuffers == { << >>, <<72>>, <<72, 105>> }
Levels == 0..MaxLevel
Charmaps == { <<0, 10, 31, 31, 14, 4, 0, 255>> }
Charmaps2 == Charmaps \cup { <<1, 2, 4, 8, 16, 32, 64, 128>> }
\* frame bounds of Wire builds: small, the AVR core's 32, and one above 256
BufferLengths == {8, 32, 260}
LongBuffers == { [i \in 1..n |-> 65] : n \in {9, 33, 64, 65} }

-----------------------------------------------------------------------------
(* the driver under every public operation *)

InitWith(ctorArgs, bufferLengths) ==
    \E a \in ctorArgs : init(a) /\ BUFFER_LENGTH \in bufferLengths /\ busFails = FALSE

\* the same, on a bus that may or may not answer
InitFaulty(ctorArgs, bufferLengths) ==
    \E a \in ctorArgs : init(a) /\ BUFFER_LENGTH \in bufferLengths /\ busFails \in BOOLEAN

Init == InitWith({CtorDefault, CtorJoyIt, CtorNoRw(0, 2, 4, 5, 6, 7, 0)}, {32})

Next ==
    \/ begin({16}, {1, 2})
    \/ clear
    \/ home
    \/ setCursor({2}, {1})
    \/ noDisplay \/ display
    \/ cursor \/ noCursor
    \/ blink \/ noBlink
    \/ scrollDisplayLeft \/ scrollDisplayRight
    \/ leftToRight \/ rightToLeft
    \/ autoscroll \/ noAutoscroll
    \/ setBacklight(Levels)
    \/ createChar({9}, Charmaps)
    \/ command(ByteSample \cup FlagBytes)
    \/ write({72})
    \/ writeBuffer(HiBuffers)

Spec == Init /\ [][Next]_vars

-----------------------------------------------------------------------------
(* single instructions over every byte value *)

InitSend == InitWith({CtorDefault, CtorJoyIt, CtorNoRw(7, 6, 3, 2, 1, 0, 5)}, {32})

NextSend ==
    \/ command(Bytes)
    \/ write(Bytes)
    \/ setBacklight(Levels)

SpecSend == InitSend /\ [][NextSend]_vars

-----------------------------------------------------------------------------------------------------------------------------------------------------
(* cursor addressing over every column *)

InitCursor == InitWith({CtorJoyIt}, {32})

NextCursor ==
    \/ setCursor(Bytes, 0..3)
    \/ setBacklight(Levels)

SpecCursor == InitCursor /\ [][NextCursor]_vars

-----------------------------------------------------------------------------
(* glyph programming over every slot value *)

InitGlyph == InitWith({CtorDefault}, {32})

NextGlyph ==
    \/ createChar(Bytes, Charmaps2)
    \/ setBacklight(Levels)

SpecGlyph == InitGlyph /\ [][NextGlyph]_vars

-----------------------------------------------------------------------------
(* stream writes under several frame bounds *)

InitWrite == InitWith({CtorDefault, CtorNoRw(7, 6, 3, 2, 1, 0, 5)}, BufferLengths)

NextWrite ==
    \/ writeBuffer(ShortBuffers \cup LongBuffers)
    \/ write(ByteSample)
    \/ setBacklight(Levels)

SpecWrite == InitWrite /\ [][NextWrite]_vars

-----------------------------------------------------------------------------
(* construction from every pin assignment the constructors accept *)

InitCtor == InitWith(CtorArgs, {32})

NextCtor ==
    \/ command(ByteSample)
    \/ write(ByteSample)
    \/ setBacklight(Levels)

SpecCtor == InitCtor /\ [][NextCtor]_vars

-----------------------------------------------------------------------------
(* cursor positioning on and beyond the rows of the display *)

Rows == {0, 1, 2, 3, 4, 7}

InitRows == InitWith({CtorDefault}, {32})

NextRows ==
    \/ begin({16}, {1, 2})
    \/ setCursor({0, 5}, Rows)

SpecRows == InitRows /\ [][NextRows]_vars

-----------------------------------------------------------------------------
(* operations on a bus that does not answer *)

InitFault == InitFaulty({CtorDefault, CtorJoyIt}, {8, 32})

NextFault ==
    \/ begin({16}, {1, 2})
    \/ command(ByteSample)
    \/ write(ByteSample)
    \/ writeBuffer(ShortBuffers)
    \/ setBacklight(Levels)

SpecFault == InitFault /\ [][NextFault]_vars

-----------------------------------------------------------------------------
(* the wire contract, stated on the pin positions *)

\* the constructor's positions: rs, enable and the four data lines, then the
\* optional rw and backlight (255: not wired)
Wired == <<pins.rs, pins.enable, pins.d4, pins.d5, pins.d6, pins.d7>>
           \o (IF pins.rw # 255 THEN <<pins.rw>> ELSE << >>)
           \o (IF pins.backlight # 255 THEN <<pins.backlight>> ELSE << >>)

\* every wired position is one of the expander's eight outputs, no two alike
ValidPinMap ==
    /\ \A i \in 1..Len(Wired) : Wired[i] \in 0..7
    /\ \A i, j \in 1..Len(Wired) : i # j => Wired[i] # Wired[j]

dataPins == <<pins.d4, pins.d5, pins.d6, pins.d7>>

\* the output byte of a nibble: backlight and register-select bits, and one
\* data line per set bit of the nibble (a sum: the positions are distinct)
NibbleByte(nibble, rs, on) ==
      (IF on /\ pins.backlight # 255 THEN 2^pins.backlight ELSE 0)
    + (IF rs THEN 2^pins.rs ELSE 0)
    + Bit(nibble, 0) * 2^pins.d4 + Bit(nibble, 1) * 2^pins.d5
    + Bit(nibble, 2) * 2^pins.d6 + Bit(nibble, 3) * 2^pins.d7

enableBit == 2^pins.enable

\* the one-transaction frame of instruction v
Frame(v, rs, on) ==
    LET high == NibbleByte(v \div 16, rs, on)
        low  == NibbleByte(v % 16, rs, on)
    IN << beginTransmission,
          WireWrite(high + enableBit), WireWrite(high),
          WireWrite(low + enableBit), WireWrite(low),
          endTransmission >>

\* the nibble read back from an output byte: bit i is the level of data line i
DecodeNibble(b) ==
      Bit(b, pins.d4) + Bit(b, pins.d5) * 2
    + Bit(b, pins.d6) * 4 + Bit(b, pins.d7) * 8

IsWrite(e) == e[1] = "write"
SingleInstruction == lastOp.name \in {"command", "write"}

\* C1: with a valid pin map, one instruction v with register-select rs is sent
\* as exactly one transaction holding high|enable, high, low|enable, low, where
\* high and low carry the backlight bit (level > 0), the rs bit and the data
\* lines of bits 4..7 and 0..3 of v.
C1_SendFrame ==
    (ValidPinMap /\ SingleInstruction) =>
        wire = Frame(lastOp.args[1], lastOp.name = "write", _backlight > 0)

C1_Witness ==
    /\ ValidPinMap /\ pins # CtorDefault
    /\ lastOp.name = "write" /\ lastOp.args[1] = 165
    /\ _backlight > 0
    /\ Len(wire) = 6

\* C2: with a valid pin map, every emitted byte that has the enable bit set is
\* followed at once, with no transaction boundary between, by the same byte
\* with only the enable bit cleared.
C2_EnablePulse ==
    ValidPinMap =>
        \A i \in 1..Len(wire) :
            (IsWrite(wire[i]) /\ Bit(wire[i][2], pins.enable) = 1) =>
                /\ i < Len(wire)
                /\ IsWrite(wire[i + 1])
                /\ wire[i + 1][2] = wire[i][2] - enableBit

C2_Witness ==
    /\ ValidPinMap
    /\ lastOp.name = "begin"
    /\ \E i \in 1..Len(wire) : IsWrite(wire[i]) /\ Bit(wire[i][2], pins.enable) = 1

\* C3: with a valid pin map, reading the data lines of the two enable-low
\* bytes of an instruction's frame, high nibble first, gives back the byte sent.
C3_RoundTrip ==
    (ValidPinMap /\ SingleInstruction) =>
        /\ Len(wire) = 6
        /\ DecodeNibble(wire[3][2]) * 16 + DecodeNibble(wire[5][2]) = lastOp.args[1]

C3_Witness ==
    /\ ValidPinMap /\ pins = CtorJoyIt
    /\ lastOp.name = "command" /\ lastOp.args[1] = 180
    /\ DecodeNibble(wire[3][2]) = 11 /\ DecodeNibble(wire[5][2]) = 4

-----------------------------------------------------------------------------
(* transactions of a trace of bus calls *)

Ends(evs) == { e \in 1..Len(evs) : evs[e][1] = "endTransmission" }

\* the beginTransmission that the endTransmission at e ends: the last one
\* before e, unless an endTransmission lies between (0: none)
BeginOf(evs, e) ==
    LET marks == { j \in 1..(e - 1) :
                     evs[j][1] \in {"beginTransmission", "endTransmission"} }
        last  == CHOOSE j \in marks : \A k \in marks : k <= j
    IN IF marks # {} /\ evs[last][1] = "beginTransmission" THEN last ELSE 0

\* the number of bytes the transaction ended at e carries
TxSize(evs, e) ==
    LET b == BeginOf(evs, e)
    IN IF b = 0 THEN 0
       ELSE Cardinality({ j \in b..e : evs[j][1] = "write" })

\* the ended transactions of a trace, by the place of their endTransmission
Transactions(evs) == { e \in Ends(evs) : BeginOf(evs, e) # 0 }

RECURSIVE TotalBytes(_, _)
TotalBytes(evs, txs) ==
    IF txs = {} THEN 0
    ELSE LET e == CHOOSE x \in txs : TRUE
         IN TxSize(evs, e) + TotalBytes(evs, txs \ {e})

\* C4: write_bytes(buffer) returns the buffer's length n; the transactions it
\* completes carry 4*n bytes in total and none more than BUFFER_LENGTH; a
\* buffer longer than BUFFER_LENGTH takes more than one transaction; no batch
\* is left unflushed when the call returns.
C4_WriteBytes ==
    lastOp.name = "writeBuffer" =>
        LET n   == Len(lastOp.args[1])
            txs == Transactions(wire)
        IN  /\ ret = n
            /\ TotalBytes(wire, txs) = 4 * n
            /\ \A e \in txs : TxSize(wire, e) <= BUFFER_LENGTH
            /\ (n > BUFFER_LENGTH => Cardinality(txs) > 1)
            /\ ~txOpen

\* one raw reset nibble: its own transaction, one enable pulse
RawNibble(nibble, on) ==
    LET out == NibbleByte(nibble, FALSE, on)
    IN << beginTransmission, WireWrite(out + enableBit), WireWrite(out),
          endTransmission >>

\* C5: initialize emits, in this order and once each: the idle bus write (one
\* byte, register-select held high, enable low) and the 50000 us power-up
\* delay; raw nibble 3 three times with delays of 4500, 200 and 200 us; raw
\* nibble 2; then as full frames function-set (0x20, 0x28 for more than one
\* row), display-on 0x0C, clear 0x01 with its settle delay, entry-mode 0x06,
\* whatever the flags were before the call.
C5_InitSequence ==
    (ValidPinMap /\ lastOp.name = "begin") =>
        LET on == _backlight > 0 IN
        wire = << WireBegin,
                  beginTransmission, WireWrite(NibbleByte(0, TRUE, on)), endTransmission,
                  delayMicroseconds(50000) >>
               \o RawNibble(3, on) \o << delayMicroseconds(4500) >>
               \o RawNibble(3, on) \o << delayMicroseconds(200) >>
               \o RawNibble(3, on) \o << delayMicroseconds(200) >>
               \o RawNibble(2, on)
               \o Frame(IF lastOp.args[2] > 1 THEN 40 ELSE 32, FALSE, on)
               \o Frame(12, FALSE, on)
               \o Frame(1, FALSE, on) \o << delayMicroseconds(1600) >>
               \o Frame(6, FALSE, on)

C5_Witness ==
    /\ ValidPinMap
    /\ lastOp.name = "begin" /\ lastOp.args[2] = 2
    /\ lastOp.dc = 3 /\ lastOp.em = 1
    /\ _displaycontrol = 4 /\ _entrymode = 2

\* the bit positions no signal but the backlight may drive
Unwired == { k \in 0..7 : \A i \in 1..Len(Wired) : Wired[i] # k }

\* C6: with a valid pin map that wires the backlight, every byte emitted has
\* the backlight bit set exactly when the level last given to set_backlight
\* (0 before any call) is above 0.  With no backlight wired the level reaches
\* no output: set_backlight emits the same single byte for every level and no
\* byte of any operation has a bit outside the wired signals.
C6_BacklightBit ==
    ValidPinMap =>
        IF pins.backlight # 255
        THEN \A i \in 1..Len(wire) :
                IsWrite(wire[i]) =>
                    (Bit(wire[i][2], pins.backlight) = 1 <=> _backlight > 0)
        ELSE /\ \A i \in 1..Len(wire) :
                    IsWrite(wire[i]) => \A k \in Unwired : Bit(wire[i][2], k) = 0
             /\ lastOp.name = "setBacklight" =>
                    wire = << beginTransmission, WireWrite(2^pins.rs), endTransmission >>

C6_Witness ==
    /\ ValidPinMap /\ pins.backlight # 255
    /\ lastOp.name = "setBacklight" /\ lastOp.bl > 0 /\ _backlight = 0
    /\ Len(wire) = 3 /\ Bit(wire[2][2], pins.backlight) = 0

C6_WitnessUnwired ==
    /\ ValidPinMap /\ pins.backlight = 255
    /\ lastOp.name = "setBacklight" /\ _backlight > 0

\* C7 as claimed: blink(true) then blink(false) leaves display_control at the
\* value it had before the two calls, and the two calls issue 0x08|flags with
\* blink, then 0x08|flags without blink.
C7_BlinkToggleRestores ==
    [][ (ValidPinMap /\ lastOp.name = "blink" /\ lastOp'.name = "noBlink") =>
            /\ _displaycontrol' = lastOp.dc
            /\ wire = Frame(8 + _displaycontrol, FALSE, _backlight > 0)
            /\ wire' = Frame(8 + _displaycontrol', FALSE, _backlight > 0)
      ]_vars

\* C7, amended: blink(true) then blink(false) leaves display_control at its
\* earlier value with the blink flag clear, which is the earlier value itself
\* when blink was off before; the calls issue exactly two instructions,
\* 0x08|(earlier flags with blink) and then 0x08|(earlier flags without blink).
C7_BlinkToggle ==
    [][ (ValidPinMap /\ lastOp.name = "blink" /\ lastOp'.name = "noBlink") =>
            LET before  == lastOp.dc
                without == before - Bit(before, 0)
            IN  /\ _displaycontrol' = without
                /\ (Bit(before, 0) = 0 => _displaycontrol' = before)
                /\ wire = Frame(8 + without + 1, FALSE, _backlight > 0)
                /\ wire' = Frame(8 + without, FALSE, _backlight > 0)
      ]_vars

C7_Witness ==
    /\ ValidPinMap
    /\ lastOp.name = "noBlink"
    /\ Bit(lastOp.dc, 0) = 1 /\ Bit(lastOp.dc, 1) = 1
    /\ _displaycontrol = lastOp.dc - 1

\* C8: for rows 0..3 and every column, set_cursor issues one Command frame
\* whose byte is 0x80 | (offset[row] + col) cut to 8 bits, offsets 0x00, 0x40,
\* 0x14, 0x54; bit 7 of it is always set; set_cursor(2, 1) issues 0xC2.
C8_SetCursor ==
    (ValidPinMap /\ lastOp.name = "setCursor" /\ lastOp.args[2] <= 3) =>
        LET col    == lastOp.args[1]
            row    == lastOp.args[2]
            offset == CASE row = 0 -> 0 [] row = 1 -> 64 [] row = 2 -> 20 [] row = 3 -> 84
            byte   == 128 + ((offset + col) % 128)
        IN  /\ wire = Frame(byte, FALSE, _backlight > 0)
            /\ Bit(DecodeNibble(wire[3][2]), 3) = 1
            /\ (col = 2 /\ row = 1) => wire = Frame(194, FALSE, _backlight > 0)

C8_Witness ==
    /\ ValidPinMap
    /\ lastOp.name = "setCursor" /\ lastOp.args = <<250, 3>>
    /\ DecodeNibble(wire[3][2]) * 16 + DecodeNibble(wire[5][2]) = 206

RECURSIVE DataFrames(_, _, _)
DataFrames(bitmap, k, on) ==
    IF k > Len(bitmap) THEN << >>
    ELSE Frame(bitmap[k], TRUE, on) \o DataFrames(bitmap, k + 1, on)

\* C9: for every slot value 0..255, create_glyph issues one Command frame
\* 0x40 | ((slot & 7) << 3) and then eight Data frames with the bitmap bytes in
\* order, nothing else; so slot and slot & 7 emit the same bytes.
C9_CreateGlyph ==
    (ValidPinMap /\ lastOp.name = "createChar") =>
        LET slot   == lastOp.args[1]
            bitmap == lastOp.args[2]
            on     == _backlight > 0
        IN  /\ Len(bitmap) = 8
            /\ wire = Frame(64 + (slot % 8) * 8, FALSE, on) \o DataFrames(bitmap, 1, on)

C9_Witness ==
    /\ ValidPinMap
    /\ lastOp.name = "createChar" /\ lastOp.args[1] = 253
    /\ Len(wire) = 54

\* C10: no driver exists on a conflicting or out-of-range pin assignment:
\* construction with one fails, so every driver's assignment is valid and its
\* masks are nonzero and pairwise disjoint.
C10_ConfigurationError ==
    /\ ValidPinMap
    /\ LET m == <<_rs_mask, _enable_mask, _data_mask[1], _data_mask[2],
                  _data_mask[3], _data_mask[4]>>
       IN  /\ \A i \in 1..6 : m[i] # 0
           /\ \A i, j \in 1..6 : i # j => And8(m[i], m[j]) = 0

-----------------------------------------------------------------------------
(* transport failures *)

\* the places in a trace where a transmission ended with an error status
FailedEnds(evs) ==
    { e \in 1..Len(evs) : evs[e][1] = "endTransmission" /\ evs[e][2] # 0 }

\* C11: when a bus write fails, the operation stops there: nothing is begun or
\* written after the failed transmission; and the caller is told: write_byte
\* and write_bytes do not return the full length, initialize does not return
\* as on success.
C11_TransportErrorAborts ==
    \A e \in FailedEnds(wire) :
        /\ \A i \in (e + 1)..Len(wire) :
              wire[i][1] \notin {"beginTransmission", "write"}
        /\ lastOp.name = "write" => ret # 1
        /\ lastOp.name = "writeBuffer" => ret # Len(lastOp.args[1])
        /\ lastOp.name = "begin" => ret # 0

-----------------------------------------------------------------------------
(* argument and state contracts *)

\* C12: set_cursor with a row of 4 or more, or a row at or beyond the line
\* count given to initialize, emits nothing and reports an error.
C12_RowRangeChecked ==
    (/\ lastOp.name = "setCursor"
     /\ \/ lastOp.args[2] >= 4
        \/ _lines # -1 /\ lastOp.args[2] >= _lines)
    => (wire = << >> /\ ret # 0)

\* C13: between construction and initialize the stored state is entry mode
\* left-to-right without autoscroll, display control with display, cursor and
\* blink all clear, and backlight level 0.
C13_PowerOnDefaults ==
    lastOp.name = "init"
    => (_entrymode = 2 /\ _displaycontrol = 0 /\ _backlight = 0)

\* C14: with a read/write pin configured, clear and home read the busy flag
\* from the display after sending their command.
C14_BusyWait ==
    (pins.rw # 255 /\ lastOp.name \in {"clear", "home"})
    => \E i \in 1..Len(wire) : wire[i][1] = "requestFrom"

\* C15: with a valid pin map that has a read/write pin, no byte written to the
\* bus has the read/write bit set.
C15_WriteOnly ==
    (ValidPinMap /\ pins.rw # 255)
    => \A i \in 1..Len(wire) : IsWrite(wire[i]) => Bit(wire[i][2], pins.rw) = 0

C15_Witness ==
    /\ ValidPinMap /\ pins.rw # 255
    /\ lastOp.name = "begin"
    /\ Cardinality({ i \in 1..Len(wire) : IsWrite(wire[i]) }) = 25

-----------------------------------------------------------------------------
(* the stored flags *)

DisplayMutators == {"display", "noDisplay", "cursor", "noCursor", "blink", "noBlink"}
EntryMutators == {"leftToRight", "rightToLeft", "autoscroll", "noAutoscroll"}

\* the flag a mutator names: its bit position and the value it gives it
NamedBit(name) ==
    CASE name \in {"display", "noDisplay"}         -> 2
      [] name \in {"cursor", "noCursor"}           -> 1
      [] name \in {"blink", "noBlink"}             -> 0
      [] name \in {"leftToRight", "rightToLeft"}   -> 1
      [] name \in {"autoscroll", "noAutoscroll"}   -> 0

NamedValue(name) ==
    IF name \in {"display", "cursor", "blink", "leftToRight", "autoscroll"}
    THEN 1 ELSE 0

\* flags with bit k given value v
WithBit(flags, k, v) == flags - Bit(flags, k) * 2^k + v * 2^k

\* the number of the low n bits in which a and b differ
DiffBits(a, b, n) == Cardinality({ k \in 0..(n - 1) : Bit(a, k) # Bit(b, k) })

\* C16: a flag mutator stores its flag and then issues exactly one Command
\* frame carrying the whole updated group, 0x08 | display-control flags or
\* 0x04 | entry-mode flags; the same mutator applied again leaves the state as
\* it is and issues the same frame once more.
C16_FlagMutators ==
    /\ [] /\ lastOp.name \in DisplayMutators =>
                /\ _displaycontrol =
                      WithBit(lastOp.dc, NamedBit(lastOp.name), NamedValue(lastOp.name))
                /\ ValidPinMap =>
                      wire = Frame(8 + _displaycontrol, FALSE, _backlight > 0)
          /\ lastOp.name \in EntryMutators =>
                /\ _entrymode =
                      WithBit(lastOp.em, NamedBit(lastOp.name), NamedValue(lastOp.name))
                /\ ValidPinMap =>
                      wire = Frame(4 + _entrymode, FALSE, _backlight > 0)
    /\ [][ (/\ lastOp.name \in DisplayMutators \cup EntryMutators
            /\ lastOp'.name = lastOp.name) =>
               /\ _displaycontrol' = _displaycontrol
               /\ _entrymode' = _entrymode
               /\ _backlight' = _backlight
               /\ Len(wire') = 6
               /\ wire' = wire
         ]_vars

C16_Witness ==
    /\ ValidPinMap
    /\ lastOp.name = "autoscroll"
    /\ Bit(lastOp.em, 0) = 1 /\ Bit(lastOp.em, 1) = 0
    /\ _entrymode = lastOp.em
    /\ wire = Frame(5, FALSE, _backlight > 0)

\* C17: initialize leaves display control at display-on with cursor and blink
\* off and entry mode at left-to-right without autoscroll, whatever the flags
\* were, and keeps the backlight level; every other operation changes at most
\* one flag, and only the flag it names.
C17_OnlyInitializeResets ==
    [][ /\ lastOp'.name = "begin" =>
             /\ _displaycontrol' = 4
             /\ _entrymode' = 2
             /\ _backlight' = _backlight
        /\ lastOp'.name # "begin" =>
             /\ DiffBits(_displaycontrol, _displaycontrol', 8)
                  + DiffBits(_entrymode, _entrymode', 8) <= 1
             /\ lastOp'.name \in DisplayMutators =>
                  /\ _entrymode' = _entrymode
                  /\ \A k \in 0..7 : k # NamedBit(lastOp'.name) =>
                        Bit(_displaycontrol', k) = Bit(_displaycontrol, k)
             /\ lastOp'.name \in EntryMutators =>
                  /\ _displaycontrol' = _displaycontrol
                  /\ \A k \in 0..7 : k # NamedBit(lastOp'.name) =>
                        Bit(_entrymode', k) = Bit(_entrymode, k)
             /\ lastOp'.name \notin DisplayMutators \cup EntryMutators =>
                  /\ _displaycontrol' = _displaycontrol
                  /\ _entrymode' = _entrymode
      ]_vars

C17_Witness ==
    /\ lastOp.name = "begin"
    /\ lastOp.dc = 7 /\ lastOp.em = 1 /\ lastOp.bl = 1
    /\ _displaycontrol = 4 /\ _entrymode = 2 /\ _backlight = 1

-----------------------------------------------------------------------------
(* bracketing of bus transactions *)

Begins(evs) == { b \in 1..Len(evs) : evs[b][1] = "beginTransmission" }

\* C18: for every frame bound and buffer length, every bus byte is written
\* inside an open transaction, no transaction is begun while another is open,
\* every begun transaction is ended, none is ended with zero bytes, and none is
\* open when a public operation returns; write_bytes of an empty buffer begins
\* no transaction and returns 0.
C18_Bracketed ==
    /\ \A i \in 1..Len(wire) : IsWrite(wire[i]) => BeginOf(wire, i) # 0
    /\ \A b \in Begins(wire) : BeginOf(wire, b) = 0
    /\ \A b \in Begins(wire) : \E e \in Ends(wire) : b < e
    /\ \A e \in Ends(wire) : TxSize(wire, e) > 0
    /\ ~txOpen
    /\ (lastOp.name = "writeBuffer" /\ lastOp.args[1] = << >>)
          => (Begins(wire) = {} /\ ret = 0)

-----------------------------------------------------------------------------
(* the two write paths *)

\* the bytes written to the bus by a trace of calls, in order
ByteStream(evs) ==
    LET w == SelectSeq(evs, IsWrite)
    IN [i \in 1..Len(w) |-> w[i][2]]

RECURSIVE OneShotStream(_, _)
\* the bytes write_byte emits for each element of buffer from i on, in order
OneShotStream(buffer, i) ==
    IF i > Len(buffer) THEN << >>
    ELSE ByteStream(_send(buffer[i], TRUE)) \o OneShotStream(buffer, i + 1)

\* C19: the bytes write_bytes(buffer) emits are the bytes write_byte(b) emits
\* for each b of the buffer in order, each a Data frame with register-select
\* high; apart from the bytes write_bytes only begins and ends transactions;
\* neither path changes the stored display state.
C19_PathsEquivalent ==
    /\ lastOp.name = "writeBuffer" =>
          /\ ByteStream(wire) = OneShotStream(lastOp.args[1], 1)
          /\ \A i \in 1..Len(wire) :
                wire[i][1] \in {"beginTransmission", "write", "endTransmission"}
    /\ (ValidPinMap /\ lastOp.name = "write") =>
          wire = Frame(lastOp.args[1], TRUE, _backlight > 0)
    /\ lastOp.name \in {"write", "writeBuffer"} =>
          /\ _displaycontrol = lastOp.dc
          /\ _entrymode = lastOp.em
          /\ _backlight = lastOp.bl

C19_Witness ==
    /\ ValidPinMap
    /\ lastOp.name = "writeBuffer"
    /\ Len(lastOp.args[1]) = 33 /\ BUFFER_LENGTH = 32 /\ _backlight > 0
    /\ Cardinality(Transactions(wire)) = 5
    /\ Len(ByteStream(wire)) = 132

-----------------------------------------------------------------------------
(* frame conditions *)

\* the operations that name no flag and no level
Keepers == {"clear", "home", "setCursor", "scrollDisplayLeft", "scrollDisplayRight",
            "createChar", "write", "writeBuffer", "command"}

\* C20: clear, home, set_cursor, the scrolls, create_glyph, write_byte,
\* write_bytes and send_raw_command change none of entry mode, display
\* control and backlight level; set_backlight changes neither flag group;
\* display-control mutators keep entry mode and entry-mode mutators keep
\* display control; a flag mutator that follows send_raw_command issues the
\* instruction of the flags stored before that command, whatever byte the
\* command carried; display control stays within 0x07, entry mode within 0x03.
C20_FrameCondition ==
    /\ [](_displaycontrol \in 0..7 /\ _entrymode \in 0..3)
    /\ [][ /\ lastOp'.name \in Keepers =>
                /\ _displaycontrol' = _displaycontrol
                /\ _entrymode' = _entrymode
                /\ _backlight' = _backlight
           /\ lastOp'.name = "setBacklight" =>
                /\ _displaycontrol' = _displaycontrol
                /\ _entrymode' = _entrymode
           /\ lastOp'.name \in DisplayMutators => _entrymode' = _entrymode
           /\ lastOp'.name \in EntryMutators => _displaycontrol' = _displaycontrol
           /\ (ValidPinMap /\ lastOp.name = "command"
                 /\ lastOp'.name \in DisplayMutators) =>
                wire' = Frame(8 + WithBit(lastOp.dc, NamedBit(lastOp'.name),
                                          NamedValue(lastOp'.name)),
                              FALSE, _backlight > 0)
           /\ (ValidPinMap /\ lastOp.name = "command"
                 /\ lastOp'.name \in EntryMutators) =>
                wire' = Frame(4 + WithBit(lastOp.em, NamedBit(lastOp'.name),
                                          NamedValue(lastOp'.name)),
                              FALSE, _backlight > 0)
         ]_vars

C20_Witness ==
    /\ ValidPinMap
    /\ lastOp.name = "command" /\ lastOp.args[1] = 15
    /\ _displaycontrol = 4 /\ _entrymode = 2 /\ _backlight = 1
    /\ wire = Frame(15, FALSE, TRUE)
====
